---- MODULE Spec2Model ----
(***************************************************************************)
(* Model of briefcase's iOS Xcode backend                                  *)
(* (src/briefcase/platforms/iOS/xcode.py): target resolution               *)
(* (iOSXcodeMixin.select_target_device), the build command                 *)
(* (iOSXcodeBuildCommand.build_app) and the run orchestration              *)
(* (iOSXcodeRunCommand.run_app).                                           *)
(*                                                                         *)
(* Every external command (self.subprocess.run(..., check=True)) and every *)
(* device state query answers nondeterministically.  Each command that an  *)
(* invocation issues is appended, with its answer, to that invocation's    *)
(* log `calls`; each select_option() prompt is appended to `prompts`.      *)
(***************************************************************************)
EXTENDS Integers, Sequences, FiniteSets, TLC

(* ------------------------------ bounds --------------------------------- *)

\* Largest number of iOS versions in the simulator catalog.
MaxVersions == 2

\* Largest number of sleep-and-requery iterations of the wait loop explored.
MaxPolls == 1

(* ------------------------------ domains -------------------------------- *)

\* Command invocations (processes running build_app or run_app).
Invocations == {1, 2}

Versions == 1..MaxVersions

Udids == {"u1", "u2"}

\* Absent values: Python None for a string, for an iOS version, for a device.
None == "None"

NoVersion == 0

NoDevice == <<>>

\* The values the --device option can hold: absent, empty, or a UDID.
DeviceOptions == {None, ""} \cup Udids

\* briefcase.integrations.xcode.DeviceState
DeviceState == {"SHUTDOWN", "BOOTED", "BOOTING", "SHUTTING_DOWN", "UNKNOWN"}

\* The states in which the wait loop of run_app exits.
StableStates == {"SHUTDOWN", "BOOTED"}

\* app.name and app.bundle of the application being built or run.
AppName == "myapp"

AppBundle == "com.example"

\* The name the catalog gives the simulator `u` under iOS version `v`.
\* Names are kept pairwise distinct so that a device taken from the wrong
\* version or the wrong UDID is visible; the code never compares names.
DeviceName(v, u) == <<"device", v, u>>

\* Sequences of n pairwise distinct iOS versions.
InjectiveSeqs(n) == {s \in [1..n -> Versions] : \A a, b \in 1..n : a /= b => s[a] /= s[b]}

\* The catalogs get_simulators('iOS') can return: an insertion-ordered dict
\* version -> (dict udid -> device), here a sequence of entries with pairwise
\* distinct versions.
Catalogs ==
    UNION { { [k \in 1..n |-> [version |-> vs[k],
                               devices |-> [u \in ds[k] |-> DeviceName(vs[k], u)]]]
              : vs \in InjectiveSeqs(n), ds \in [1..n -> SUBSET Udids] }
            : n \in 0..MaxVersions }

(* ------------------------------- state --------------------------------- *)

VARIABLES
    simulators,     \* the catalog returned by get_simulators
    command,        \* per invocation: "build" or "run"
    options_device, \* per invocation: self.options.device
    pc,             \* per invocation: position in the command
    udid,           \* per invocation: local udid
    iOS_version,    \* per invocation: local iOS_version
    device,         \* per invocation: local device
    device_state,   \* per invocation: local device_state of run_app
    calls,          \* per invocation: external commands issued, with answers
    prompts,        \* per invocation: select_option() calls made
    error,          \* per invocation: the BriefcaseCommandError raised, if any
    simState        \* per UDID: the state of the simulator in the toolchain

vars == <<simulators, command, options_device, pc, udid, iOS_version, device,
          device_state, calls, prompts, error, simState>>

NoError == [kind |-> None, udid |-> None, iOS_version |-> NoVersion,
            device |-> NoDevice, app |-> None]

(* --------------------------- pure helpers ------------------------------ *)

\* Python truthiness of self.options.device.
Truthy(d) == d /= None /\ d /= ""

\* list(simulators.keys())
VersionKeys(sims) == [k \in 1..Len(sims) |-> sims[k].version]

\* simulators[v]
DevicesOf(sims, v) == sims[CHOOSE k \in 1..Len(sims) : sims[k].version = v].devices

\* The scan without its early return: the last entry, from position k on,
\* whose devices contain d wins; 0 when there is none.
ScanVersionsLastMatch(sims, d, k) ==
    LET hits == {j \in k..Len(sims) : d \in DOMAIN sims[j].devices} IN
    IF hits = {} THEN 0 ELSE CHOOSE j \in hits : \A h \in hits : h <= j

\* The for loop over simulators.items(): index of the first entry, from
\* position k on, whose devices contain d; 0 when the loop runs off the end.
RECURSIVE ScanVersions(_, _, _)
ScanVersions(sims, d, k) ==
    IF k > Len(sims) THEN 0
    ELSE IF d \in DOMAIN sims[k].devices THEN k
    ELSE ScanVersions(sims, d, k + 1)

\* '.'.join([app.bundle, app.name])
AppIdentifier == <<AppBundle, AppName>>

\* self.binary_path(app)
BinaryPath == <<"binary_path", AppName>>

\* One entry of the command log.
Call(cmd, u, arg, out) == [cmd |-> cmd, udid |-> u, arg |-> arg, out |-> out]

\* The commands of the log, in order, without their arguments and answers.
Cmds(log) == [k \in 1..Len(log) |-> log[k].cmd]

\* Number of entries of the log that issue `cmd`.
Count(log, cmd) == Cardinality({k \in 1..Len(log) : log[k].cmd = cmd})

(* ------------------------------- Init ---------------------------------- *)

\* One invocation of `briefcase build` or `briefcase run`, about to call
\* select_target_device; the other invocation is never started ("idle").
Init ==
    /\ simulators \in Catalogs
    /\ \E c \in {"build", "run"} :
           command = [i \in Invocations |-> IF i = 1 THEN c ELSE None]
    /\ \E d \in DeviceOptions :
           options_device = [i \in Invocations |-> IF i = 1 THEN d ELSE None]
    /\ pc = [i \in Invocations |-> IF i = 1 THEN "select" ELSE "idle"]
    /\ udid = [i \in Invocations |-> None]
    /\ iOS_version = [i \in Invocations |-> NoVersion]
    /\ device = [i \in Invocations |-> NoDevice]
    /\ device_state = [i \in Invocations |-> None]
    /\ calls = [i \in Invocations |-> <<>>]
    /\ prompts = [i \in Invocations |-> <<>>]
    /\ error = [i \in Invocations |-> NoError]
    /\ simState = [u \in Udids |-> "UNKNOWN"]

(* ----------------------- select_target_device -------------------------- *)

\* raise BriefcaseCommandError(...): the invocation ends with error e.
Raise(i, e) ==
    /\ pc' = [pc EXCEPT ![i] = "error"]
    /\ error' = [error EXCEPT ![i] = e]

\* SelectByUdid without the raise after the loop: an unknown UDID falls
\* through to the automatic and interactive selection.
SelectByUdidFallingThrough(i) ==
    /\ pc[i] = "select"
    /\ Truthy(options_device[i])
    /\ LET k == ScanVersions(simulators, options_device[i], 1) IN
       IF k /= 0
       THEN /\ udid' = [udid EXCEPT ![i] = options_device[i]]
            /\ iOS_version' = [iOS_version EXCEPT ![i] = simulators[k].version]
            /\ device' = [device EXCEPT ![i] = simulators[k].devices[options_device[i]]]
            /\ pc' = [pc EXCEPT ![i] = "selected"]
            /\ UNCHANGED <<error, prompts>>
       ELSE IF Len(simulators) = 0
       THEN /\ Raise(i, [NoError EXCEPT !.kind = "No iOS simulators available"])
            /\ UNCHANGED <<udid, iOS_version, device, prompts>>
       ELSE /\ \E j \in 1..Len(simulators) :
                   iOS_version' = [iOS_version EXCEPT ![i] = VersionKeys(simulators)[j]]
            /\ prompts' = [prompts EXCEPT ![i] =
                             IF Len(simulators) = 1 THEN @ ELSE Append(@, "iOS version")]
            /\ pc' = [pc EXCEPT ![i] = "select_device"]
            /\ UNCHANGED <<udid, device, error>>
    /\ UNCHANGED <<simulators, command, options_device, device_state, calls>>
    /\ UNCHANGED simState

\* The branch `if self.options.device:`: look the UDID up in every iOS
\* version, in the catalog's order, and return the first match or raise.
SelectByUdid(i) ==
    /\ pc[i] = "select"
    /\ Truthy(options_device[i])
    /\ LET k == ScanVersions(simulators, options_device[i], 1) IN
       IF k /= 0
       THEN /\ udid' = [udid EXCEPT ![i] = options_device[i]]
            /\ iOS_version' = [iOS_version EXCEPT ![i] = simulators[k].version]
            /\ device' = [device EXCEPT ![i] = simulators[k].devices[options_device[i]]]
            /\ pc' = [pc EXCEPT ![i] = "selected"]
            /\ UNCHANGED error
       ELSE /\ Raise(i, [NoError EXCEPT !.kind = "Invalid simulator UDID",
                                        !.udid = options_device[i]])
            /\ UNCHANGED <<udid, iOS_version, device>>
    /\ UNCHANGED <<simulators, command, options_device, device_state, calls, prompts>>
    /\ UNCHANGED simState

\* SelectVersion without the `len(simulators) == 1` branch: a single
\* version is offered to select_option as well.
SelectVersionAlwaysPrompting(i) ==
    /\ pc[i] = "select"
    /\ ~Truthy(options_device[i])
    /\ IF Len(simulators) = 0
       THEN /\ Raise(i, [NoError EXCEPT !.kind = "No iOS simulators available"])
            /\ UNCHANGED <<iOS_version, prompts>>
       ELSE /\ \E k \in 1..Len(simulators) :
                   iOS_version' = [iOS_version EXCEPT ![i] = VersionKeys(simulators)[k]]
            /\ prompts' = [prompts EXCEPT ![i] = Append(@, "iOS version")]
            /\ pc' = [pc EXCEPT ![i] = "select_device"]
            /\ UNCHANGED error
    /\ UNCHANGED <<simulators, command, options_device, udid, device, device_state, calls>>
    /\ UNCHANGED simState

\* SelectVersion with the `len(simulators) == 0` test after the prompt: an
\* empty catalog is offered to select_option before the error is raised.
SelectVersionPromptingOnEmpty(i) ==
    /\ pc[i] = "select"
    /\ ~Truthy(options_device[i])
    /\ IF Len(simulators) = 0
       THEN /\ Raise(i, [NoError EXCEPT !.kind = "No iOS simulators available"])
            /\ prompts' = [prompts EXCEPT ![i] = Append(@, "iOS version")]
            /\ UNCHANGED iOS_version
       ELSE IF Len(simulators) = 1
       THEN /\ iOS_version' = [iOS_version EXCEPT ![i] = VersionKeys(simulators)[1]]
            /\ pc' = [pc EXCEPT ![i] = "select_device"]
            /\ UNCHANGED <<error, prompts>>
       ELSE /\ \E k \in 1..Len(simulators) :
                   iOS_version' = [iOS_version EXCEPT ![i] = VersionKeys(simulators)[k]]
            /\ prompts' = [prompts EXCEPT ![i] = Append(@, "iOS version")]
            /\ pc' = [pc EXCEPT ![i] = "select_device"]
            /\ UNCHANGED error
    /\ UNCHANGED <<simulators, command, options_device, udid, device, device_state, calls>>
    /\ UNCHANGED simState

\* The iOS version stage: no version raises, one version is taken, several
\* versions are offered to select_option, which returns one of the keys.
SelectVersion(i) ==
    /\ pc[i] = "select"
    /\ ~Truthy(options_device[i])
    /\ IF Len(simulators) = 0
       THEN /\ Raise(i, [NoError EXCEPT !.kind = "No iOS simulators available"])
            /\ UNCHANGED <<iOS_version, prompts>>
       ELSE IF Len(simulators) = 1
       THEN /\ iOS_version' = [iOS_version EXCEPT ![i] = VersionKeys(simulators)[1]]
            /\ pc' = [pc EXCEPT ![i] = "select_device"]
            /\ UNCHANGED <<error, prompts>>
       ELSE /\ \E k \in 1..Len(simulators) :
                   iOS_version' = [iOS_version EXCEPT ![i] = VersionKeys(simulators)[k]]
            /\ prompts' = [prompts EXCEPT ![i] = Append(@, "iOS version")]
            /\ pc' = [pc EXCEPT ![i] = "select_device"]
            /\ UNCHANGED error
    /\ UNCHANGED <<simulators, command, options_device, udid, device, device_state, calls>>
    /\ UNCHANGED simState

\* SelectDevice without the `len(devices) == 1` branch: a single device is
\* offered to select_option as well.
SelectDeviceAlwaysPrompting(i) ==
    /\ pc[i] = "select_device"
    /\ LET devices == DevicesOf(simulators, iOS_version[i]) IN
       IF Cardinality(DOMAIN devices) = 0
       THEN /\ Raise(i, [NoError EXCEPT !.kind = "No simulators available for iOS",
                                        !.iOS_version = iOS_version[i]])
            /\ UNCHANGED <<udid, device, prompts>>
       ELSE /\ \E u \in DOMAIN devices :
                   /\ udid' = [udid EXCEPT ![i] = u]
                   /\ device' = [device EXCEPT ![i] = devices[u]]
            /\ prompts' = [prompts EXCEPT ![i] = Append(@, "simulator device")]
            /\ pc' = [pc EXCEPT ![i] = "selected"]
            /\ UNCHANGED error
    /\ UNCHANGED <<simulators, command, options_device, iOS_version, device_state, calls>>
    /\ UNCHANGED simState

\* SelectDevice with the `len(devices) == 0` test after the prompt: an empty
\* device mapping is offered to select_option before the error is raised.
SelectDevicePromptingOnEmpty(i) ==
    /\ pc[i] = "select_device"
    /\ LET devices == DevicesOf(simulators, iOS_version[i]) IN
       IF Cardinality(DOMAIN devices) = 0
       THEN /\ Raise(i, [NoError EXCEPT !.kind = "No simulators available for iOS",
                                        !.iOS_version = iOS_version[i]])
            /\ prompts' = [prompts EXCEPT ![i] = Append(@, "simulator device")]
            /\ UNCHANGED <<udid, device>>
       ELSE IF Cardinality(DOMAIN devices) = 1
       THEN /\ LET u == CHOOSE u \in DOMAIN devices : TRUE IN
                   /\ udid' = [udid EXCEPT ![i] = u]
                   /\ device' = [device EXCEPT ![i] = devices[u]]
            /\ pc' = [pc EXCEPT ![i] = "selected"]
            /\ UNCHANGED <<error, prompts>>
       ELSE /\ \E u \in DOMAIN devices :
                   /\ udid' = [udid EXCEPT ![i] = u]
                   /\ device' = [device EXCEPT ![i] = devices[u]]
            /\ prompts' = [prompts EXCEPT ![i] = Append(@, "simulator device")]
            /\ pc' = [pc EXCEPT ![i] = "selected"]
            /\ UNCHANGED error
    /\ UNCHANGED <<simulators, command, options_device, iOS_version, device_state, calls>>
    /\ UNCHANGED simState

\* The device stage within the selected version: no device raises, one
\* device is taken, several devices are offered to select_option.
SelectDevice(i) ==
    /\ pc[i] = "select_device"
    /\ LET devices == DevicesOf(simulators, iOS_version[i]) IN
       IF Cardinality(DOMAIN devices) = 0
       THEN /\ Raise(i, [NoError EXCEPT !.kind = "No simulators available for iOS",
                                        !.iOS_version = iOS_version[i]])
            /\ UNCHANGED <<udid, device, prompts>>
       ELSE IF Cardinality(DOMAIN devices) = 1
       THEN /\ LET u == CHOOSE u \in DOMAIN devices : TRUE IN
                   /\ udid' = [udid EXCEPT ![i] = u]
                   /\ device' = [device EXCEPT ![i] = devices[u]]
            /\ pc' = [pc EXCEPT ![i] = "selected"]
            /\ UNCHANGED <<error, prompts>>
       ELSE /\ \E u \in DOMAIN devices :
                   /\ udid' = [udid EXCEPT ![i] = u]
                   /\ device' = [device EXCEPT ![i] = devices[u]]
            /\ prompts' = [prompts EXCEPT ![i] = Append(@, "simulator device")]
            /\ pc' = [pc EXCEPT ![i] = "selected"]
            /\ UNCHANGED error
    /\ UNCHANGED <<simulators, command, options_device, iOS_version, device_state, calls>>
    /\ UNCHANGED simState

(* ------------------------------ build_app ------------------------------ *)

\* The exit statuses of a command run with check=True: zero, or non-zero
\* (subprocess.CalledProcessError).
ExitStatuses == {"ok", "failed"}

\* Build with check=True left out: the exit status of xcodebuild is not
\* looked at and the build always returns.
BuildIgnoringFailure(i) ==
    /\ pc[i] = "selected"
    /\ command[i] = "build"
    /\ \E out \in ExitStatuses :
           calls' = [calls EXCEPT ![i] =
                        Append(@, Call("xcodebuild", None, <<device[i], iOS_version[i]>>, out))]
    /\ pc' = [pc EXCEPT ![i] = "done"]
    /\ UNCHANGED <<simulators, command, options_device, udid, iOS_version, device,
                   device_state, prompts, error>>
    /\ UNCHANGED simState

\* Build with the error of select_target_device swallowed: xcodebuild is
\* run even though no target was resolved.
BuildDespiteResolutionError(i) ==
    /\ \/ pc[i] = "selected"
       \/ pc[i] = "error" /\ calls[i] = <<>>
    /\ command[i] = "build"
    /\ \E out \in ExitStatuses :
           /\ calls' = [calls EXCEPT ![i] =
                           Append(@, Call("xcodebuild", None, <<device[i], iOS_version[i]>>, out))]
           /\ IF out = "ok"
              THEN pc' = [pc EXCEPT ![i] = "done"] /\ UNCHANGED error
              ELSE Raise(i, [NoError EXCEPT !.kind = "Unable to build app", !.app = AppName])
    /\ UNCHANGED <<simulators, command, options_device, udid, iOS_version, device,
                   device_state, prompts>>
    /\ UNCHANGED simState

\* xcodebuild ... build for the selected device and iOS version.
Build(i) ==
    /\ pc[i] = "selected"
    /\ command[i] = "build"
    /\ \E out \in ExitStatuses :
           /\ calls' = [calls EXCEPT ![i] =
                           Append(@, Call("xcodebuild", None, <<device[i], iOS_version[i]>>, out))]
           /\ IF out = "ok"
              THEN pc' = [pc EXCEPT ![i] = "done"] /\ UNCHANGED error
              ELSE Raise(i, [NoError EXCEPT !.kind = "Unable to build app", !.app = AppName])
    /\ UNCHANGED <<simulators, command, options_device, udid, iOS_version, device,
                   device_state, prompts>>
    /\ UNCHANGED simState

(* ------------------------------- run_app ------------------------------- *)

\* The toolchain has accepted `simctl boot` for the simulator u: the
\* simulator is booting, or has already finished booting.
BootAccepted(u) ==
    \E s \in {"BOOTING", "BOOTED"} : simState' = [simState EXCEPT ![u] = s]

\* get_device_state(udid): the toolchain reports the state the simulator is
\* in at that moment.  Simulators change state outside this program, so the
\* state reported is any of the device states, whatever it was before.
\* A state outside {SHUTDOWN, BOOTED} enters the wait loop.
GetDeviceState(i) ==
    /\ pc[i] = "selected"
    /\ command[i] = "run"
    /\ \E s \in DeviceState :
           /\ device_state' = [device_state EXCEPT ![i] = s]
           /\ simState' = [simState EXCEPT ![udid[i]] = s]
           /\ calls' = [calls EXCEPT ![i] = Append(@, Call("get_device_state", udid[i], <<>>, s))]
           /\ pc' = [pc EXCEPT ![i] = IF s \in StableStates THEN "boot" ELSE "wait"]
    /\ UNCHANGED <<simulators, command, options_device, udid, iOS_version, device,
                   prompts, error>>

\* The wait loop with `if` in place of the inner `while`: one sleep and one
\* query, after which the run goes on whatever the query answered.
WaitForSimulatorOnce(i) ==
    /\ pc[i] = "wait"
    /\ Count(calls[i], "get_device_state") <= MaxPolls
    /\ \E s \in DeviceState :
           /\ device_state' = [device_state EXCEPT ![i] = s]
           /\ simState' = [simState EXCEPT ![udid[i]] = s]
           /\ calls' = [calls EXCEPT ![i] = Append(@, Call("get_device_state", udid[i], <<>>, s))]
    /\ pc' = [pc EXCEPT ![i] = "boot"]
    /\ UNCHANGED <<simulators, command, options_device, udid, iOS_version, device,
                   prompts, error>>

\* The wait loop with a deadline: a query that still answers a transient
\* state ends the run with a timeout error.
WaitForSimulatorWithTimeout(i) ==
    /\ pc[i] = "wait"
    /\ Count(calls[i], "get_device_state") <= MaxPolls
    /\ \E s \in DeviceState :
           /\ device_state' = [device_state EXCEPT ![i] = s]
           /\ simState' = [simState EXCEPT ![udid[i]] = s]
           /\ calls' = [calls EXCEPT ![i] = Append(@, Call("get_device_state", udid[i], <<>>, s))]
           /\ IF s \in StableStates
              THEN pc' = [pc EXCEPT ![i] = "boot"] /\ UNCHANGED error
              ELSE Raise(i, [NoError EXCEPT !.kind = "Timed out waiting for simulator",
                                           !.device = device[i],
                                           !.iOS_version = iOS_version[i]])
    /\ UNCHANGED <<simulators, command, options_device, udid, iOS_version, device,
                   prompts>>

\* The wait loop with the query left out of its body: the loop only sleeps,
\* so device_state keeps the transient answer it entered the loop with.
WaitForSimulatorSleepingOnly(i) ==
    /\ pc[i] = "wait"
    /\ UNCHANGED vars

\* One iteration of the wait loop: time.sleep(2), then query the state again.
WaitForSimulator(i) ==
    /\ pc[i] = "wait"
    /\ Count(calls[i], "get_device_state") <= MaxPolls
    /\ \E s \in DeviceState :
           /\ device_state' = [device_state EXCEPT ![i] = s]
           /\ simState' = [simState EXCEPT ![udid[i]] = s]
           /\ calls' = [calls EXCEPT ![i] = Append(@, Call("get_device_state", udid[i], <<>>, s))]
           /\ pc' = [pc EXCEPT ![i] = IF s \in StableStates THEN "boot" ELSE "wait"]
    /\ UNCHANGED <<simulators, command, options_device, udid, iOS_version, device,
                   prompts, error>>

\* Boot with the CalledProcessError of the boot command swallowed: the run
\* goes on to open the simulator whatever the boot command answered.
BootIgnoringFailure(i) ==
    /\ pc[i] = "boot"
    /\ IF device_state[i] = "SHUTDOWN"
       THEN \E out \in ExitStatuses :
               /\ calls' = [calls EXCEPT ![i] = Append(@, Call("boot", udid[i], <<>>, out))]
               /\ IF out = "ok" THEN BootAccepted(udid[i]) ELSE UNCHANGED simState
       ELSE UNCHANGED <<calls, simState>>
    /\ pc' = [pc EXCEPT ![i] = "open"]
    /\ UNCHANGED <<simulators, command, options_device, udid, iOS_version, device,
                   device_state, prompts, error>>

\* Boot without the test of device_state: the boot command is issued in
\* whichever state the wait loop was left.
BootRegardlessOfState(i) ==
    /\ pc[i] = "boot"
    /\ \E out \in ExitStatuses :
           /\ calls' = [calls EXCEPT ![i] = Append(@, Call("boot", udid[i], <<>>, out))]
           /\ IF out = "ok"
              THEN /\ pc' = [pc EXCEPT ![i] = "open"]
                   /\ BootAccepted(udid[i])
                   /\ UNCHANGED error
              ELSE /\ Raise(i, [NoError EXCEPT !.kind = "Unable to boot",
                                               !.device = device[i],
                                               !.iOS_version = iOS_version[i]])
                   /\ UNCHANGED simState
    /\ UNCHANGED <<simulators, command, options_device, udid, iOS_version, device,
                   device_state, prompts>>

\* Variant of Boot that waits for the boot to complete: after an accepted
\* boot command the run goes back to polling the device state.
BootPollingToCompletion(i) ==
    /\ pc[i] = "boot"
    /\ IF device_state[i] = "SHUTDOWN"
       THEN \E out \in ExitStatuses :
               /\ calls' = [calls EXCEPT ![i] = Append(@, Call("boot", udid[i], <<>>, out))]
               /\ IF out = "ok"
                  THEN /\ pc' = [pc EXCEPT ![i] = "wait"]
                       /\ BootAccepted(udid[i])
                       /\ UNCHANGED error
                  ELSE /\ Raise(i, [NoError EXCEPT !.kind = "Unable to boot",
                                                   !.device = device[i],
                                                   !.iOS_version = iOS_version[i]])
                       /\ UNCHANGED simState
       ELSE /\ pc' = [pc EXCEPT ![i] = "open"]
            /\ UNCHANGED <<calls, error, simState>>
    /\ UNCHANGED <<simulators, command, options_device, udid, iOS_version,
                   device, device_state, prompts>>

\* Variant of Boot that serialises invocations on the simulator: the boot is
\* skipped when another invocation has already issued a boot for the UDID.
BootUnlessAlreadyBooted(i) ==
    /\ pc[i] = "boot"
    /\ IF /\ device_state[i] = "SHUTDOWN"
          /\ \A j \in Invocations \ {i} :
                 \A k \in 1..Len(calls[j]) :
                     ~(calls[j][k].cmd = "boot" /\ calls[j][k].udid = udid[i])
       THEN \E out \in ExitStatuses :
               /\ calls' = [calls EXCEPT ![i] = Append(@, Call("boot", udid[i], <<>>, out))]
               /\ IF out = "ok"
                  THEN /\ pc' = [pc EXCEPT ![i] = "open"]
                       /\ BootAccepted(udid[i])
                       /\ UNCHANGED error
                  ELSE /\ Raise(i, [NoError EXCEPT !.kind = "Unable to boot",
                                                   !.device = device[i],
                                                   !.iOS_version = iOS_version[i]])
                       /\ UNCHANGED simState
       ELSE /\ pc' = [pc EXCEPT ![i] = "open"]
            /\ UNCHANGED <<calls, error, simState>>
    /\ UNCHANGED <<simulators, command, options_device, udid, iOS_version,
                   device, device_state, prompts>>

\* `if device_state == DeviceState.SHUTDOWN:` xcrun simctl boot <udid>;
\* otherwise the boot is skipped.
Boot(i) ==
    /\ pc[i] = "boot"
    /\ IF device_state[i] = "SHUTDOWN"
       THEN \E out \in ExitStatuses :
               /\ calls' = [calls EXCEPT ![i] = Append(@, Call("boot", udid[i], <<>>, out))]
               /\ IF out = "ok"
                  THEN /\ pc' = [pc EXCEPT ![i] = "open"]
                       /\ BootAccepted(udid[i])
                       /\ UNCHANGED error
                  ELSE /\ Raise(i, [NoError EXCEPT !.kind = "Unable to boot",
                                                   !.device = device[i],
                                                   !.iOS_version = iOS_version[i]])
                       /\ UNCHANGED simState
       ELSE /\ pc' = [pc EXCEPT ![i] = "open"]
            /\ UNCHANGED <<calls, error, simState>>
    /\ UNCHANGED <<simulators, command, options_device, udid, iOS_version, device,
                   device_state, prompts>>

\* Open raising the message of the boot step (the except clause copied
\* from the boot step without its text changed).
OpenRaisingBootError(i) ==
    /\ pc[i] = "open"
    /\ \E out \in ExitStatuses :
           /\ calls' = [calls EXCEPT ![i] = Append(@, Call("open", udid[i], <<>>, out))]
           /\ IF out = "ok"
              THEN pc' = [pc EXCEPT ![i] = "uninstall"] /\ UNCHANGED error
              ELSE Raise(i, [NoError EXCEPT !.kind = "Unable to boot",
                                           !.device = device[i],
                                           !.iOS_version = iOS_version[i]])
    /\ UNCHANGED <<simulators, command, options_device, udid, iOS_version, device,
                   device_state, prompts>>
    /\ UNCHANGED simState

\* Open addressed to the --device option instead of the resolved UDID.
OpenRequestedDevice(i) ==
    /\ pc[i] = "open"
    /\ \E out \in ExitStatuses :
           /\ calls' = [calls EXCEPT ![i] = Append(@, Call("open", options_device[i], <<>>, out))]
           /\ IF out = "ok"
              THEN pc' = [pc EXCEPT ![i] = "uninstall"] /\ UNCHANGED error
              ELSE Raise(i, [NoError EXCEPT !.kind = "Unable to open",
                                           !.device = device[i],
                                           !.iOS_version = iOS_version[i]])
    /\ UNCHANGED <<simulators, command, options_device, udid, iOS_version, device,
                   device_state, prompts>>
    /\ UNCHANGED simState

\* open -a Simulator --args -CurrentDeviceUDID <udid>
Open(i) ==
    /\ pc[i] = "open"
    /\ \E out \in ExitStatuses :
           /\ calls' = [calls EXCEPT ![i] = Append(@, Call("open", udid[i], <<>>, out))]
           /\ IF out = "ok"
              THEN pc' = [pc EXCEPT ![i] = "uninstall"] /\ UNCHANGED error
              ELSE Raise(i, [NoError EXCEPT !.kind = "Unable to open",
                                           !.device = device[i],
                                           !.iOS_version = iOS_version[i]])
    /\ UNCHANGED <<simulators, command, options_device, udid, iOS_version, device,
                   device_state, prompts>>
    /\ UNCHANGED simState

\* The answers of xcrun simctl uninstall: zero, or non-zero either because
\* the app is not installed on the device or for another reason.  check=True
\* turns every non-zero exit status into CalledProcessError.
UninstallStatuses == {"ok", "failed: app not installed", "failed"}

\* Uninstall with its CalledProcessError swallowed: the run goes on to the
\* install step whatever the uninstall command answered.
UninstallIgnoringFailure(i) ==
    /\ pc[i] = "uninstall"
    /\ \E out \in UninstallStatuses :
           calls' = [calls EXCEPT ![i] = Append(@, Call("uninstall", udid[i], AppIdentifier, out))]
    /\ pc' = [pc EXCEPT ![i] = "install"]
    /\ UNCHANGED <<simulators, command, options_device, udid, iOS_version, device,
                   device_state, prompts, error>>
    /\ UNCHANGED simState

\* xcrun simctl uninstall <udid> <bundle>.<name>
Uninstall(i) ==
    /\ pc[i] = "uninstall"
    /\ \E out \in UninstallStatuses :
           /\ calls' = [calls EXCEPT ![i] = Append(@, Call("uninstall", udid[i], AppIdentifier, out))]
           /\ IF out = "ok"
              THEN pc' = [pc EXCEPT ![i] = "install"] /\ UNCHANGED error
              ELSE Raise(i, [NoError EXCEPT !.kind = "Unable to uninstall", !.app = AppName])
    /\ UNCHANGED <<simulators, command, options_device, udid, iOS_version, device,
                   device_state, prompts>>
    /\ UNCHANGED simState

\* xcrun simctl install <udid> <binary path>
Install(i) ==
    /\ pc[i] = "install"
    /\ \E out \in ExitStatuses :
           /\ calls' = [calls EXCEPT ![i] = Append(@, Call("install", udid[i], BinaryPath, out))]
           /\ IF out = "ok"
              THEN pc' = [pc EXCEPT ![i] = "launch"] /\ UNCHANGED error
              ELSE Raise(i, [NoError EXCEPT !.kind = "Unable to install", !.app = AppName])
    /\ UNCHANGED <<simulators, command, options_device, udid, iOS_version, device,
                   device_state, prompts>>
    /\ UNCHANGED simState

\* Launch with one retry: a first failed launch command is issued again
\* before the error is raised.
LaunchRetrying(i) ==
    /\ pc[i] = "launch"
    /\ \E out \in ExitStatuses :
           /\ calls' = [calls EXCEPT ![i] = Append(@, Call("launch", udid[i], AppIdentifier, out))]
           /\ IF out = "ok"
              THEN pc' = [pc EXCEPT ![i] = "done"] /\ UNCHANGED error
              ELSE IF Count(calls[i], "launch") = 0
              THEN UNCHANGED <<pc, error>>
              ELSE Raise(i, [NoError EXCEPT !.kind = "Unable to launch", !.app = AppName])
    /\ UNCHANGED <<simulators, command, options_device, udid, iOS_version, device,
                   device_state, prompts>>
    /\ UNCHANGED simState

\* xcrun simctl launch <udid> <bundle>.<name>
Launch(i) ==
    /\ pc[i] = "launch"
    /\ \E out \in ExitStatuses :
           /\ calls' = [calls EXCEPT ![i] = Append(@, Call("launch", udid[i], AppIdentifier, out))]
           /\ IF out = "ok"
              THEN pc' = [pc EXCEPT ![i] = "done"] /\ UNCHANGED error
              ELSE Raise(i, [NoError EXCEPT !.kind = "Unable to launch", !.app = AppName])
    /\ UNCHANGED <<simulators, command, options_device, udid, iOS_version, device,
                   device_state, prompts>>
    /\ UNCHANGED simState

(* --------------------------- specification ----------------------------- *)

Next ==
    \E i \in Invocations :
        \/ SelectByUdid(i)
        \/ SelectVersion(i)
        \/ SelectDevice(i)
        \/ Build(i)
        \/ GetDeviceState(i)
        \/ WaitForSimulator(i)
        \/ Boot(i)
        \/ Open(i)
        \/ Uninstall(i)
        \/ Install(i)
        \/ Launch(i)

Spec == Init /\ [][Next]_vars

\* Two `briefcase run` invocations started side by side with the same
\* --device UDID, on a machine with one iOS version installed.  Nothing in
\* run_app takes a lock or looks at another process, so the two invocations
\* interleave at every external call.
InitConcurrent ==
    /\ simulators \in {c \in Catalogs : Len(c) = 1 /\ c[1].version = 1}
    /\ command = [i \in Invocations |-> "run"]
    /\ \E d \in Udids : options_device = [i \in Invocations |-> d]
    /\ pc = [i \in Invocations |-> "select"]
    /\ udid = [i \in Invocations |-> None]
    /\ iOS_version = [i \in Invocations |-> NoVersion]
    /\ device = [i \in Invocations |-> NoDevice]
    /\ device_state = [i \in Invocations |-> None]
    /\ calls = [i \in Invocations |-> <<>>]
    /\ prompts = [i \in Invocations |-> <<>>]
    /\ error = [i \in Invocations |-> NoError]
    /\ simState = [u \in Udids |-> "UNKNOWN"]

\* The steps of a run whose target is requested by UDID.
NextConcurrent ==
    \E i \in Invocations :
        \/ SelectByUdid(i)
        \/ GetDeviceState(i)
        \/ WaitForSimulator(i)
        \/ Boot(i)
        \/ Open(i)
        \/ Uninstall(i)
        \/ Install(i)
        \/ Launch(i)

SpecConcurrent == InitConcurrent /\ [][NextConcurrent]_vars

\* An iteration of the wait loop once the simulator has settled: beyond the
\* MaxPolls queries explored, the toolchain answers SHUTDOWN or BOOTED.
WaitForSimulatorSettled(i) ==
    /\ pc[i] = "wait"
    /\ Count(calls[i], "get_device_state") > MaxPolls
    /\ \E s \in StableStates :
           /\ device_state' = [device_state EXCEPT ![i] = s]
           /\ simState' = [simState EXCEPT ![udid[i]] = s]
           /\ calls' = [calls EXCEPT ![i] = Append(@, Call("get_device_state", udid[i], <<>>, s))]
           /\ pc' = [pc EXCEPT ![i] = "boot"]
    /\ UNCHANGED <<simulators, command, options_device, udid, iOS_version, device,
                   prompts, error>>

\* One `briefcase run`, on a machine with at most one iOS version installed.
InitRun ==
    /\ simulators \in {c \in Catalogs : \A k \in 1..Len(c) : c[k].version = 1}
    /\ command = [i \in Invocations |-> IF i = 1 THEN "run" ELSE None]
    /\ \E d \in DeviceOptions :
           options_device = [i \in Invocations |-> IF i = 1 THEN d ELSE None]
    /\ pc = [i \in Invocations |-> IF i = 1 THEN "select" ELSE "idle"]
    /\ udid = [i \in Invocations |-> None]
    /\ iOS_version = [i \in Invocations |-> NoVersion]
    /\ device = [i \in Invocations |-> NoDevice]
    /\ device_state = [i \in Invocations |-> None]
    /\ calls = [i \in Invocations |-> <<>>]
    /\ prompts = [i \in Invocations |-> <<>>]
    /\ error = [i \in Invocations |-> NoError]
    /\ simState = [u \in Udids |-> "UNKNOWN"]

\* The steps of a run whose simulator settles.
NextRun ==
    \E i \in Invocations :
        \/ SelectByUdid(i)
        \/ SelectVersion(i)
        \/ SelectDevice(i)
        \/ GetDeviceState(i)
        \/ WaitForSimulator(i)
        \/ WaitForSimulatorSettled(i)
        \/ Boot(i)
        \/ Open(i)
        \/ Uninstall(i)
        \/ Install(i)
        \/ Launch(i)

\* run_app is synchronous: every external command and every state query
\* returns, so a run that can take a step does take one.
SpecRunFair == InitRun /\ [][NextRun]_vars /\ WF_vars(NextRun)

(* ------------------- vocabulary of the properties ---------------------- *)

\* Invocation i is a `briefcase run` / `briefcase build`.
IsRun(i) == command[i] = "run"

IsBuild(i) == command[i] = "build"

\* select_target_device has returned or raised in invocation i.
ResolveEnded(i) == pc[i] \notin {"idle", "select", "select_device"}

\* The errors select_target_device raises.
ResolveErrors == {"Invalid simulator UDID", "No iOS simulators available",
                  "No simulators available for iOS"}

\* select_target_device has returned a target in invocation i.
Resolved(i) == ResolveEnded(i) /\ error[i].kind \notin ResolveErrors

IsQuery(c) == c.cmd = "get_device_state"

IsDeviceCommand(c) == c.cmd \in {"boot", "open", "uninstall", "install", "launch"}

\* The state queries, and the device commands, that invocation i has issued.
Queries(i) == SelectSeq(calls[i], IsQuery)

DeviceCommands(i) == SelectSeq(calls[i], IsDeviceCommand)

IsPrefix(s, t) == Len(s) <= Len(t) /\ \A k \in 1..Len(s) : s[k] = t[k]

\* The two orders in which run_app may issue the device commands.
StepsWithBoot == <<"boot", "open", "uninstall", "install", "launch">>

StepsWithoutBoot == <<"open", "uninstall", "install", "launch">>

\* The udid is a key of some version of the catalog.
InCatalog(d) == \E k \in 1..Len(simulators) : d \in DOMAIN simulators[k].devices

(* ------------------------------- C1 ------------------------------------ *)

\* C1: in every run the device commands issued so far are a prefix of
\* [boot] open uninstall install launch, every command but the last one
\* issued returned success, and a command that failed is the last one issued
\* and has ended the run with an error.
C1_FixedOrderFailFast ==
    \A i \in Invocations :
        IsRun(i) =>
            LET steps == DeviceCommands(i) IN
            /\ \/ IsPrefix(Cmds(steps), StepsWithBoot)
               \/ IsPrefix(Cmds(steps), StepsWithoutBoot)
            /\ \A k \in 1..Len(steps) :
                   steps[k].out /= "ok" => /\ k = Len(steps)
                                           /\ calls[i][Len(calls[i])] = steps[k]
                                           /\ pc[i] = "error"
                                           /\ error[i] /= NoError
            /\ pc[i] = "done" => Cmds(steps) \in {StepsWithBoot, StepsWithoutBoot}

\* A run whose install failed after boot, open and uninstall succeeded.
C1_Witness ==
    \E i \in Invocations :
        /\ IsRun(i)
        /\ pc[i] = "error"
        /\ Cmds(DeviceCommands(i)) = <<"boot", "open", "uninstall", "install">>
        /\ calls[i][Len(calls[i])].out = "failed"

(* ------------------------------- C2 ------------------------------------ *)

\* C2: a run whose uninstall command failed because the app was not
\* installed is not aborted with the uninstall error; it goes on to the
\* install step.
C2_NotInstalledIsSuccess ==
    \A i \in Invocations :
        \A k \in 1..Len(calls[i]) :
            (calls[i][k].cmd = "uninstall" /\ calls[i][k].out = "failed: app not installed")
                => /\ error[i].kind /= "Unable to uninstall"
                   /\ \/ pc[i] = "install"
                      \/ \E j \in (k + 1)..Len(calls[i]) : calls[i][j].cmd = "install"

(* ------------------------------- C3 ------------------------------------ *)

\* C3: a failed boot command is the last command of its run; the run has
\* ended with the boot error and has issued no open, uninstall, install or
\* launch command.
C3_BootFailureAborts ==
    \A i \in Invocations :
        \A k \in 1..Len(calls[i]) :
            (calls[i][k].cmd = "boot" /\ calls[i][k].out /= "ok")
                => /\ k = Len(calls[i])
                   /\ pc[i] = "error"
                   /\ error[i].kind = "Unable to boot"
                   /\ \A j \in 1..Len(calls[i]) :
                          calls[i][j].cmd \notin {"open", "uninstall", "install", "launch"}

\* A run that has ended on a failed boot command.
C3_Witness ==
    \E i \in Invocations :
        /\ IsRun(i)
        /\ pc[i] = "error"
        /\ Len(calls[i]) > 0
        /\ calls[i][Len(calls[i])].cmd = "boot"
        /\ calls[i][Len(calls[i])].out = "failed"

(* ------------------------------- C4 ------------------------------------ *)

\* The run has left the wait loop and taken the boot decision.
BootDecided(i) ==
    \/ pc[i] \in {"open", "uninstall", "install", "launch", "done"}
    \/ pc[i] = "error" /\ Len(calls[i]) > 0

\* C4: a run issues at most one boot command; once the decision is taken
\* it has issued exactly one if the last state the query returned is
\* SHUTDOWN and none if that state is BOOTED; and a boot command is never
\* issued before a query has returned SHUTDOWN as its last answer.
C4_BootIffShutdown ==
    \A i \in Invocations :
        IsRun(i) =>
            LET qs == Queries(i)
                boots == Count(calls[i], "boot")
            IN  /\ boots <= 1
                /\ boots = 1 => (Len(qs) > 0 /\ qs[Len(qs)].out = "SHUTDOWN")
                /\ BootDecided(i) =>
                       /\ Len(qs) > 0
                       /\ qs[Len(qs)].out \in StableStates
                       /\ qs[Len(qs)].out = "SHUTDOWN" => boots = 1
                       /\ qs[Len(qs)].out = "BOOTED" => boots = 0

\* A run that waited for a transient state to settle in SHUTDOWN and then
\* issued its boot command.
C4_Witness ==
    \E i \in Invocations :
        /\ IsRun(i)
        /\ pc[i] = "open"
        /\ Len(Queries(i)) > 1
        /\ device_state[i] = "SHUTDOWN"
        /\ Count(calls[i], "boot") = 1

(* ------------------------------- C5 ------------------------------------ *)

\* C5: once select_target_device has ended for a requested UDID that is in
\* the catalog, it has returned that UDID, the version of the first catalog
\* entry whose devices contain it and that entry's device, and
\* select_option has not been called.
C5_RequestedUdidFirstMatch ==
    \A i \in Invocations :
        (Truthy(options_device[i]) /\ InCatalog(options_device[i]) /\ ResolveEnded(i))
            => /\ Resolved(i)
               /\ udid[i] = options_device[i]
               /\ \E k \in 1..Len(simulators) :
                      /\ udid[i] \in DOMAIN simulators[k].devices
                      /\ \A j \in 1..(k - 1) : udid[i] \notin DOMAIN simulators[j].devices
                      /\ iOS_version[i] = simulators[k].version
                      /\ device[i] = simulators[k].devices[udid[i]]
               /\ prompts[i] = <<>>

\* The requested UDID is listed under two versions and the first was returned.
C5_Witness ==
    \E i \in Invocations :
        /\ pc[i] = "selected"
        /\ Truthy(options_device[i])
        /\ Len(simulators) = 2
        /\ options_device[i] \in DOMAIN simulators[1].devices
        /\ options_device[i] \in DOMAIN simulators[2].devices
        /\ iOS_version[i] = simulators[1].version

(* ------------------------------- C6 ------------------------------------ *)

\* C6: once select_target_device has ended for a requested UDID that no
\* version of the catalog contains, the invocation has ended with the
\* error "Invalid simulator UDID" naming that UDID; nothing was selected,
\* select_option was not called and no command was issued.
C6_UnknownUdidRaises ==
    \A i \in Invocations :
        (Truthy(options_device[i]) /\ ~InCatalog(options_device[i]) /\ pc[i] /= "select")
            => /\ pc[i] = "error"
               /\ error[i].kind = "Invalid simulator UDID"
               /\ error[i].udid = options_device[i]
               /\ udid[i] = None /\ iOS_version[i] = NoVersion /\ device[i] = NoDevice
               /\ prompts[i] = <<>>
               /\ calls[i] = <<>>

\* A run that asked for a UDID missing from a catalog that has devices.
C6_Witness ==
    \E i \in Invocations :
        /\ IsRun(i)
        /\ Truthy(options_device[i])
        /\ ~InCatalog(options_device[i])
        /\ Len(simulators) > 0
        /\ DOMAIN simulators[1].devices /= {}
        /\ pc[i] = "error"

(* ------------------------------- C7 ------------------------------------ *)

\* The select_option calls expected of an invocation without a requested
\* UDID: one for the version if the catalog has several, then one for the
\* device if the version selected has several.
PromptsForVersion == IF Len(simulators) > 1 THEN <<"iOS version">> ELSE <<>>

PromptsForDevice(v) ==
    IF v /= NoVersion /\ Cardinality(DOMAIN DevicesOf(simulators, v)) > 1
    THEN <<"simulator device">>
    ELSE <<>>

\* C7: without a requested UDID, the select_option calls made by the time
\* select_target_device ends are exactly one for the version if the catalog
\* has more than one version, followed by one for the device if the version
\* selected has more than one device; between the two stages only the
\* version prompt, if any, has been made.
C7_PromptCount ==
    \A i \in Invocations :
        ~Truthy(options_device[i]) =>
            /\ pc[i] = "select_device" => prompts[i] = PromptsForVersion
            /\ ResolveEnded(i) =>
                   /\ prompts[i] = PromptsForVersion \o PromptsForDevice(iOS_version[i])
                   /\ Len(prompts[i]) =
                          (IF Len(simulators) > 1 THEN 1 ELSE 0)
                          + (IF /\ iOS_version[i] /= NoVersion
                                /\ Cardinality(DOMAIN DevicesOf(simulators, iOS_version[i])) > 1
                             THEN 1 ELSE 0)

\* Two versions, and the version chosen has two devices: two prompts.
C7_Witness ==
    \E i \in Invocations :
        /\ ~Truthy(options_device[i])
        /\ pc[i] = "selected"
        /\ Len(simulators) > 1
        /\ Cardinality(DOMAIN DevicesOf(simulators, iOS_version[i])) > 1
        /\ prompts[i] = <<"iOS version", "simulator device">>

(* ------------------------------- C8 ------------------------------------ *)

\* C8: with one version holding one device and no requested UDID,
\* select_option is never called, and select_target_device ends by
\* returning that device's UDID, that version and that device.
C8_AutoSelectSingle ==
    \A i \in Invocations :
        (/\ pc[i] /= "idle"
         /\ ~Truthy(options_device[i])
         /\ Len(simulators) = 1
         /\ Cardinality(DOMAIN simulators[1].devices) = 1)
            => /\ prompts[i] = <<>>
               /\ ResolveEnded(i) =>
                      /\ Resolved(i)
                      /\ iOS_version[i] = simulators[1].version
                      /\ DOMAIN simulators[1].devices = {udid[i]}
                      /\ device[i] = simulators[1].devices[udid[i]]

\* The only device of the only version has been selected.
C8_Witness ==
    \E i \in Invocations :
        /\ ~Truthy(options_device[i])
        /\ Len(simulators) = 1
        /\ Cardinality(DOMAIN simulators[1].devices) = 1
        /\ pc[i] = "selected"
        /\ udid[i] /= None

(* ------------------------------- C9 ------------------------------------ *)

\* C9: with an empty catalog and no requested UDID, the invocation ends in
\* select_target_device with the error "No iOS simulators available";
\* select_option is not called and no state query or command is issued.
C9_EmptyCatalogRaises ==
    \A i \in Invocations :
        (pc[i] /= "idle" /\ ~Truthy(options_device[i]) /\ Len(simulators) = 0)
            => /\ pc[i] \in {"select", "error"}
               /\ pc[i] = "error" => error[i].kind = "No iOS simulators available"
               /\ udid[i] = None /\ iOS_version[i] = NoVersion /\ device[i] = NoDevice
               /\ prompts[i] = <<>>
               /\ calls[i] = <<>>

\* A run against an empty catalog that has ended with the error.
C9_Witness ==
    \E i \in Invocations :
        /\ IsRun(i)
        /\ ~Truthy(options_device[i])
        /\ Len(simulators) = 0
        /\ pc[i] = "error"

(* ------------------------------- C10 ----------------------------------- *)

\* C10: without a requested UDID, once select_target_device has ended with
\* a version selected whose device mapping is empty, the invocation has
\* ended with the error "No simulators available for iOS <version>"; no
\* device prompt was made, no target was returned and no command issued.
C10_EmptyVersionRaises ==
    \A i \in Invocations :
        (/\ ~Truthy(options_device[i])
         /\ ResolveEnded(i)
         /\ iOS_version[i] /= NoVersion
         /\ DOMAIN DevicesOf(simulators, iOS_version[i]) = {})
            => /\ pc[i] = "error"
               /\ error[i].kind = "No simulators available for iOS"
               /\ error[i].iOS_version = iOS_version[i]
               /\ udid[i] = None /\ device[i] = NoDevice
               /\ \A k \in 1..Len(prompts[i]) : prompts[i][k] /= "simulator device"
               /\ calls[i] = <<>>

\* The version chosen through select_option has no device.
C10_Witness ==
    \E i \in Invocations :
        /\ ~Truthy(options_device[i])
        /\ pc[i] = "error"
        /\ prompts[i] = <<"iOS version">>
        /\ iOS_version[i] /= NoVersion
        /\ DOMAIN DevicesOf(simulators, iOS_version[i]) = {}

(* ------------------------------- C11 ----------------------------------- *)

\* The commands a run issues besides the state query.
RunCommands == {"boot", "open", "uninstall", "install", "launch"}

\* C11: a run issues each of boot, open, uninstall, install and launch at
\* most once, and a run that has returned has resolved its target, left
\* the wait loop on SHUTDOWN or BOOTED, and has had every command it issued
\* (open, uninstall, install, launch, and boot when the device was shut
\* down) answered with success.
C11_SuccessOnlyIfAllSucceeded ==
    \A i \in Invocations :
        IsRun(i) =>
            /\ \A c \in RunCommands : Count(calls[i], c) <= 1
            /\ pc[i] = "done" =>
                   /\ Resolved(i)
                   /\ udid[i] /= None
                   /\ error[i] = NoError
                   /\ device_state[i] \in StableStates
                   /\ \A c \in RunCommands \ {"boot"} : Count(calls[i], c) = 1
                   /\ \A k \in 1..Len(calls[i]) :
                          IsDeviceCommand(calls[i][k]) => calls[i][k].out = "ok"

\* A run that has returned after booting the device: five commands, each
\* issued once.
C11_Witness ==
    \E i \in Invocations :
        /\ IsRun(i)
        /\ pc[i] = "done"
        /\ Cmds(DeviceCommands(i)) = StepsWithBoot

(* ------------------------------- C12 ----------------------------------- *)

\* The message run_app raises when the command `cmd` fails.
StepError(cmd) ==
    CASE cmd = "boot" -> "Unable to boot"
      [] cmd = "open" -> "Unable to open"
      [] cmd = "uninstall" -> "Unable to uninstall"
      [] cmd = "install" -> "Unable to install"
      [] cmd = "launch" -> "Unable to launch"
      [] OTHER -> None

\* The run has ended with the error of one of its five steps.
StepFailed(i) ==
    /\ IsRun(i)
    /\ pc[i] = "error"
    /\ error[i].kind \in {StepError(c) : c \in RunCommands}

\* C12 as stated: the error of every failed step carries the app name, the
\* iOS version and the device name of the run.
C12_ErrorNamesAppVersionDevice ==
    \A i \in Invocations :
        StepFailed(i) => /\ error[i].app = AppName
                         /\ error[i].iOS_version = iOS_version[i]
                         /\ error[i].device = device[i]

\* C12 as amended: a run holds an error exactly when it has ended in
\* error; the error of a failed step is the message of the command issued
\* last, which is the command that failed; the boot and open errors carry
\* the device name and the iOS version and no app name; the uninstall,
\* install and launch errors carry the app name and neither the device
\* name nor the iOS version.
C12_ErrorIdentifiesStep ==
    \A i \in Invocations :
        /\ (pc[i] = "error") = (error[i] /= NoError)
        /\ StepFailed(i) =>
               LET last == calls[i][Len(calls[i])] IN
               /\ Len(calls[i]) > 0
               /\ last.out /= "ok"
               /\ error[i].kind = StepError(last.cmd)
               /\ error[i].udid = None
               /\ IF last.cmd \in {"boot", "open"}
                  THEN /\ error[i].device = device[i]
                       /\ error[i].iOS_version = iOS_version[i]
                       /\ error[i].app = None
                  ELSE /\ error[i].app = AppName
                       /\ error[i].device = NoDevice
                       /\ error[i].iOS_version = NoVersion
        /\ (IsRun(i) /\ pc[i] = "error" /\ Len(calls[i]) > 0) => StepFailed(i)

\* A run that has ended on a failed open command.
C12_Witness ==
    \E i \in Invocations :
        /\ StepFailed(i)
        /\ calls[i][Len(calls[i])].cmd = "open"
        /\ error[i].kind = "Unable to open"

(* ------------------------------- C13 ----------------------------------- *)

\* C13: a build issues no command but xcodebuild, and that at most once;
\* once the target is resolved and the build has ended it has issued it
\* exactly once; the build has returned exactly when that invocation
\* answered success, and has ended with "Unable to build app <name>"
\* exactly when it answered failure.
C13_BuildSingleInvocation ==
    \A i \in Invocations :
        IsBuild(i) =>
            /\ Len(calls[i]) <= 1
            /\ \A k \in 1..Len(calls[i]) : calls[i][k].cmd = "xcodebuild"
            /\ (Len(calls[i]) = 1) = (Resolved(i) /\ pc[i] \in {"done", "error"})
            /\ (pc[i] = "done") = (Len(calls[i]) = 1 /\ calls[i][1].out = "ok")
            /\ (Len(calls[i]) = 1 /\ calls[i][1].out /= "ok")
                   => /\ pc[i] = "error"
                      /\ error[i].kind = "Unable to build app"
                      /\ error[i].app = AppName
            /\ error[i].kind = "Unable to build app"
                   => (Len(calls[i]) = 1 /\ calls[i][1].out /= "ok")

\* A build whose xcodebuild invocation failed.
C13_Witness ==
    \E i \in Invocations :
        /\ IsBuild(i)
        /\ pc[i] = "error"
        /\ Len(calls[i]) = 1
        /\ calls[i][1].out = "failed"

(* ------------------------------- C14 ----------------------------------- *)

\* C14: in a run, device_state is the answer of the last state query; a
\* state query is followed by another state query exactly when it answered
\* a state other than SHUTDOWN and BOOTED, by the boot command when it
\* answered SHUTDOWN and by the open command when it answered BOOTED; so
\* while the last answer is a transient state the run is in its wait loop
\* and has issued no boot, open, uninstall, install or launch command.
C14_PollUntilStable ==
    \A i \in Invocations :
        IsRun(i) =>
            LET qs == Queries(i) IN
            /\ device_state[i] = IF Len(qs) = 0 THEN None ELSE qs[Len(qs)].out
            /\ \A k \in 1..Len(calls[i]) :
                   IsQuery(calls[i][k]) =>
                       /\ calls[i][k].out \notin StableStates =>
                              /\ k < Len(calls[i]) => IsQuery(calls[i][k + 1])
                              /\ k = Len(calls[i]) => pc[i] = "wait"
                       /\ calls[i][k].out \in StableStates =>
                              /\ k < Len(calls[i]) =>
                                     calls[i][k + 1].cmd =
                                         IF calls[i][k].out = "SHUTDOWN" THEN "boot" ELSE "open"
                              /\ k = Len(calls[i]) => pc[i] \in {"boot", "open"}
            /\ (Len(qs) > 0 /\ qs[Len(qs)].out \notin StableStates)
                   => /\ pc[i] = "wait"
                      /\ DeviceCommands(i) = <<>>
            /\ DeviceCommands(i) /= <<>> => (Len(qs) > 0 /\ qs[Len(qs)].out \in StableStates)

\* A run that found a transient state, queried again, found the device
\* BOOTED and went on to open the simulator.
C14_Witness ==
    \E i \in Invocations :
        /\ IsRun(i)
        /\ Len(Queries(i)) = 2
        /\ Queries(i)[1].out \notin StableStates
        /\ Queries(i)[2].out = "BOOTED"
        /\ Cmds(DeviceCommands(i)) = <<"open">>

(* ------------------------------- C15 ----------------------------------- *)

\* Every state query of the run so far has answered a transient state.
OnlyTransientAnswers(i) ==
    /\ Len(Queries(i)) > 0
    /\ \A k \in 1..Len(Queries(i)) : Queries(i)[k].out \notin StableStates

\* C15: a run whose state queries have all answered a transient state has
\* neither returned nor raised: it is in its wait loop, has issued nothing
\* but state queries, and (as long as the number of queries explored allows
\* one more) its next sleep-and-query iteration can be taken.
C15_NoTimeout ==
    \A i \in Invocations :
        (IsRun(i) /\ OnlyTransientAnswers(i))
            => /\ pc[i] = "wait"
               /\ error[i] = NoError
               /\ Len(calls[i]) = Len(Queries(i))
               /\ Len(Queries(i)) <= MaxPolls => ENABLED WaitForSimulator(i)

\* A run that has slept and queried again and still waits.
C15_Witness ==
    \E i \in Invocations :
        /\ IsRun(i)
        /\ OnlyTransientAnswers(i)
        /\ Len(Queries(i)) > 1
        /\ pc[i] = "wait"

Boots(i) == SelectSeq(calls[i], LAMBDA c : c.cmd = "boot")

\* C17: there is no locking across invocations.  Two runs on the same UDID
\* that have both read SHUTDOWN and have both passed the boot step have each
\* issued a boot command for that UDID, whatever the other has done; and an
\* invocation whose boot failed has stopped there with the boot error.
C17_NoLocking ==
    \A i \in Invocations :
        IsRun(i) =>
            /\ \A j \in Invocations \ {i} :
                   ( /\ IsRun(j)
                     /\ Resolved(i) /\ Resolved(j)
                     /\ udid[i] = udid[j]
                     /\ BootDecided(i) /\ BootDecided(j)
                     /\ device_state[i] = "SHUTDOWN"
                     /\ device_state[j] = "SHUTDOWN" )
                   => /\ Len(Boots(i)) = 1 /\ Boots(i)[1].udid = udid[i]
                      /\ Len(Boots(j)) = 1 /\ Boots(j)[1].udid = udid[i]
            /\ (Len(Boots(i)) > 0 /\ Boots(i)[1].out = "failed")
                   => /\ pc[i] = "error"
                      /\ error[i].kind = "Unable to boot"
                      /\ calls[i][Len(calls[i])].cmd = "boot"

\* C17 witness: a double boot.  Both invocations read SHUTDOWN before either
\* booted, the first boot was accepted, and the second invocation's boot of
\* the same simulator failed and ended that invocation with the boot error.
C17_Witness ==
    \E i \in Invocations : \E j \in Invocations \ {i} :
        /\ IsRun(i) /\ IsRun(j)
        /\ udid[i] = udid[j] /\ udid[i] \in Udids
        /\ Len(Boots(i)) = 1 /\ Boots(i)[1].out = "ok"
        /\ Len(Boots(j)) = 1 /\ Boots(j)[1].out = "failed"
        /\ simState[udid[i]] \in {"BOOTING", "BOOTED"}
        /\ pc[j] = "error"
        /\ error[j].kind = "Unable to boot"

\* The run has ended: run_app returned or raised.
Ended(i) == pc[i] \in {"done", "error"}

\* C18: when every command and query returns and the simulator settles,
\* every run ends, after at most MaxPolls + 2 state queries and at most five
\* device commands: in success right after an accepted launch, or in an error
\* of one kind, raised once; an ended run takes no further step.
C18_RunTerminates ==
    /\ \A i \in Invocations : IsRun(i) ~> Ended(i)
    /\ [](\A i \in Invocations :
             IsRun(i) =>
                 /\ Len(Queries(i)) <= MaxPolls + 2
                 /\ Len(DeviceCommands(i)) <= 5
                 /\ pc[i] = "done" =>
                        /\ error[i] = NoError
                        /\ calls[i][Len(calls[i])].cmd = "launch"
                        /\ calls[i][Len(calls[i])].out = "ok"
                 /\ pc[i] = "error" <=> error[i] # NoError)
    /\ [][\A i \in Invocations :
             Ended(i) => /\ pc'[i] = pc[i]
                         /\ error'[i] = error[i]
                         /\ calls'[i] = calls[i]]_vars

\* C18 witness: a run that ended in success after the longest wait, with
\* MaxPolls + 2 state queries and all five device commands.
C18_Witness ==
    \E i \in Invocations :
        /\ IsRun(i)
        /\ pc[i] = "done"
        /\ Len(Queries(i)) = MaxPolls + 2
        /\ Len(DeviceCommands(i)) = 5

\* C19: a resolved target is an entry of the catalog,
\* simulators[iOS_version][udid] exists and is the device resolved; every
\* state query and device command of the run is addressed to the resolved
\* UDID; uninstall and launch name the same identifier <bundle>.<name>.
C19_ResolvedTargetUsedThroughout ==
    \A i \in Invocations :
        (IsRun(i) /\ Resolved(i)) =>
            /\ \E k \in 1..Len(simulators) : simulators[k].version = iOS_version[i]
            /\ udid[i] \in DOMAIN DevicesOf(simulators, iOS_version[i])
            /\ DevicesOf(simulators, iOS_version[i])[udid[i]] = device[i]
            /\ \A k \in 1..Len(calls[i]) :
                   /\ calls[i][k].cmd \in {"get_device_state"} \cup RunCommands
                   /\ calls[i][k].udid = udid[i]
                   /\ calls[i][k].cmd \in {"uninstall", "launch"} =>
                          calls[i][k].arg = AppIdentifier
                   /\ calls[i][k].cmd = "install" => calls[i][k].arg = BinaryPath

\* C19 witness: a run on a target picked through the selector (no --device
\* given, several devices offered) has issued a state query and all five
\* device commands.
C19_Witness ==
    \E i \in Invocations :
        /\ IsRun(i)
        /\ ~Truthy(options_device[i])
        /\ Len(prompts[i]) > 0
        /\ pc[i] = "done"
        /\ Len(Queries(i)) > 0
        /\ Len(DeviceCommands(i)) = 5

\* C20: a build resolves its target before it builds.  xcodebuild is run
\* only on a resolved target; a build given an unknown UDID, an empty catalog
\* or a version without devices ends in the matching resolution error with
\* xcodebuild never run, and that error is not the build error.
C20_BuildResolvesFirst ==
    \A i \in Invocations :
        IsBuild(i) =>
            /\ calls[i] # <<>> => Resolved(i)
            /\ (ResolveEnded(i) /\ Truthy(options_device[i])
                    /\ ~InCatalog(options_device[i]))
                   => /\ pc[i] = "error"
                      /\ error[i].kind = "Invalid simulator UDID"
            /\ (ResolveEnded(i) /\ ~Truthy(options_device[i])
                    /\ Len(simulators) = 0)
                   => /\ pc[i] = "error"
                      /\ error[i].kind = "No iOS simulators available"
            /\ (ResolveEnded(i) /\ ~Truthy(options_device[i])
                    /\ iOS_version[i] # NoVersion
                    /\ DOMAIN DevicesOf(simulators, iOS_version[i]) = {})
                   => /\ pc[i] = "error"
                      /\ error[i].kind = "No simulators available for iOS"
            /\ error[i].kind \in ResolveErrors
                   => /\ pc[i] = "error"
                      /\ calls[i] = <<>>

\* C20 witness: a build whose catalog has a version without devices has
\* ended in the resolution error.
C20_Witness ==
    \E i \in Invocations :
        /\ IsBuild(i)
        /\ pc[i] = "error"
        /\ error[i].kind = "No simulators available for iOS"
        /\ calls[i] = <<>>

====
